---- MODULE Spec2Model ----
\* Model of the web-search answer pipeline (modules/websearch.py, modules/llm.py)
\* and of the /chat stream relay (app/main.py, modules/chat.py).
EXTENDS Naturals, Integers, Sequences, FiniteSets, TLC

VARIABLES
    \* ---- web_search_task (one pipeline run) ----
    pc,              \* stage of the run
    user_query,      \* the argument of web_search_task
    sub_queries,     \* result of decompose_query
    qi,              \* number of sub-queries already searched
    heap,            \* the result dicts created by perform_search (dicts are shared by reference)
    all_results,     \* list of references into heap
    unique_results,  \* list of references into heap
    final_results,   \* list of references into heap
    si,              \* number of selected results already scraped
    answer,          \* value returned to the caller
    calls,           \* external calls issued so far, in order
    llm_log,         \* the completions requested: purpose, sources in the prompt, what the API did
    fetch_log,       \* the fetches made by the scraper: url and what the network did
    stage_log,       \* stages entered so far
    snapshot,        \* the selected dicts as they were when selected
    \* ---- decompose_query on its own ----
    dq_query, dq_outcome, dq_result, dq_pc,
    \* ---- perform_search on its own ----
    ps_query, ps_limit, ps_outcome, ps_result, ps_pc,
    \* ---- scrape_content on its own ----
    sc_url, sc_fetch, sc_result, sc_pc,
    \* ---- dedup + top-k selection on its own ----
    sel_candidates, sel_topK, sel_out, sel_pc,
    \* ---- generate_and_save (the /chat relay) ----
    g_pc,            \* position of the async generator
    full_response,   \* the local accumulator
    received,        \* chunks obtained from the provider generator, in order
    relayed,         \* chunks delivered to the client, in order
    raw_log,         \* content of every raw provider chunk consumed so far
    ended,           \* how the stream ended, once it has
    saves,           \* save_chat_message tasks scheduled, each with its response argument
    chat_history     \* rows inserted by the save tasks that ran

pipeVars == <<pc, user_query, sub_queries, qi, heap, all_results, unique_results,
              final_results, si, answer, calls, llm_log, fetch_log, stage_log, snapshot>>
dqVars == <<dq_query, dq_outcome, dq_result, dq_pc>>
psVars == <<ps_query, ps_limit, ps_outcome, ps_result, ps_pc>>
scVars == <<sc_url, sc_fetch, sc_result, sc_pc>>
selVars == <<sel_candidates, sel_topK, sel_out, sel_pc>>
chatVars == <<g_pc, full_response, received, relayed, raw_log, ended, saves, chat_history>>
vars == <<pipeVars, dqVars, psVars, scVars, selVars, chatVars>>

\* What each component leaves alone.
notPipe == <<dqVars, psVars, scVars, selVars, chatVars>>
notDq == <<pipeVars, psVars, scVars, selVars, chatVars>>
notPs == <<pipeVars, dqVars, scVars, selVars, chatVars>>
notSc == <<pipeVars, dqVars, psVars, selVars, chatVars>>
notSel == <<pipeVars, dqVars, psVars, scVars, chatVars>>
notChat == <<pipeVars, dqVars, psVars, scVars, selVars>>

\* ------------------------------------------------------------------ bounds
MaxRespLen == 4
MaxHits == 3
MaxLimit == 2
MaxCandidates == 4
MaxPageLen == 2002
MaxRawChunks == 3

\* ------------------------------------------------------------------ values
\* Characters of a text: a letter, another letter, a blank, a double quote, a line feed.
Chars == {"a", "b", "sp", "dq", "nl"}
Whitespace == {"sp", "nl"}
Quote == {"dq"}

Min(a, b) == IF a <= b THEN a ELSE b

\* Python's None and a present string, as one record shape.
None == [absent |-> TRUE, text |-> <<>>]
Some(t) == [absent |-> FALSE, text |-> t]

\* What a call does: return a value, or raise to its caller.
Return(v) == [raised |-> FALSE, value |-> v]
Raise == [raised |-> TRUE, value |-> <<>>]

\* All texts of at most n characters.
TextsUpTo(n) == UNION {[1..k -> Chars] : k \in 0..n}

\* ------------------------------------------------------------------ llm.py
\* What the completion API does: raise, or answer with a message whose content is
\* a string or None.
LLMOutcomes(texts) ==
    {[kind |-> "error", content |-> None]}
      \cup {[kind |-> "ok", content |-> None]}
      \cup {[kind |-> "ok", content |-> Some(t)] : t \in texts}

generate_response_propagating(outcome) ==
    IF outcome.kind = "error" THEN Raise ELSE Return(outcome.content)

generate_response(outcome) ==
    IF outcome.kind = "error" THEN Return(None) ELSE Return(outcome.content)

\* ------------------------------------------------------------------ str methods
RECURSIVE LStrip(_, _)
LStrip(s, set) ==
    IF s # <<>> /\ Head(s) \in set THEN LStrip(Tail(s), set) ELSE s

RECURSIVE RStrip(_, _)
RStrip(s, set) ==
    IF s # <<>> /\ s[Len(s)] \in set THEN RStrip(SubSeq(s, 1, Len(s) - 1), set) ELSE s

\* str.strip() with set = Whitespace, str.strip('"') with set = Quote
Strip(s, set) == RStrip(LStrip(s, set), set)

\* str.split('\n'): the pieces between line feeds, empty pieces included
RECURSIVE SplitFrom(_, _)
SplitFrom(s, cur) ==
    IF s = <<>> THEN <<cur>>
    ELSE IF Head(s) = "nl" THEN <<cur>> \o SplitFrom(Tail(s), <<>>)
    ELSE SplitFrom(Tail(s), Append(cur, Head(s)))

Split(s) == SplitFrom(s, <<>>)

\* ------------------------------------------------------------------ decompose_query
NonBlank(q) == Strip(q, Whitespace) # <<>>

\* [q.strip().strip('"') for q in response.split('\n') if q.strip()]
ParseLines(text) ==
    LET kept == SelectSeq(Split(text), NonBlank)
    IN [i \in 1..Len(kept) |-> Strip(Strip(kept[i], Whitespace), Quote)]

decompose_query(query, outcome) ==
    LET r == generate_response(outcome)
    IN IF r.raised THEN Raise
       ELSE IF r.value.absent \/ r.value.text = <<>> THEN Return(<<query>>)
       ELSE LET queries == ParseLines(r.value.text)
            IN Return(IF queries # <<>> THEN queries ELSE <<query>>)

\* ------------------------------------------------------------------ perform_search
Links == {"a", "b", "c", "d"}

\* The 'content' key of a result dict: absent until the scraper sets it.
NoContent == [present |-> FALSE, src |-> "", len |-> 0]
Content(t) == [present |-> TRUE, src |-> t.src, len |-> t.len]

\* What DDGS().text does: raise, or hand back hits {'title', 'href', 'body'}.
SearchOutcomes(hitSeqs) ==
    {[raises |-> TRUE, hits |-> <<>>]} \cup {[raises |-> FALSE, hits |-> h] : h \in hitSeqs}

perform_search(query, num_results, outcome) ==
    IF outcome.raises THEN Return(<<>>)
    ELSE Return([i \in 1..Len(outcome.hits) |->
                   [title |-> outcome.hits[i].title,
                    link |-> outcome.hits[i].href,
                    description |-> outcome.hits[i].body,
                    content |-> NoContent]])

\* ------------------------------------------------------------------ scrape_content
ScrapeLimit == 2000

\* A text is named by the page it was extracted from and its length: the prefixes of
\* one page's text are told apart by their length alone. The empty string is one value.
EmptyText == [src |-> "", len |-> 0]
Text(src, n) == IF n = 0 THEN EmptyText ELSE [src |-> src, len |-> n]

\* text[:k]
Prefix(t, k) == Text(t.src, Min(t.len, k))

\* What requests.get and the HTML parser do: the fetch times out, the name does not
\* resolve, or a final response arrives with a status, which parses or not into a
\* cleaned text of some length.
Timeout == [kind |-> "timeout", status |-> 0, parses |-> FALSE, len |-> 0]
DnsFailure == [kind |-> "dns", status |-> 0, parses |-> FALSE, len |-> 0]
Response(status, parses, n) == [kind |-> "response", status |-> status, parses |-> parses, len |-> n]

\* response.raise_for_status(): raises on 4xx and 5xx
raise_for_status_raises(status) == status >= 400 /\ status < 600

\* Whether anything in the try block (lines 51-64) raises.
try_block_raises(fetch) ==
    \/ fetch.kind # "response"
    \/ raise_for_status_raises(fetch.status)
    \/ ~fetch.parses

scrape_content(url, fetch) ==
    IF try_block_raises(fetch) THEN Return(EmptyText)
    ELSE Return(Prefix(Text(url, fetch.len), ScrapeLimit))

\* ------------------------------------------------------------------ dedup and top-k
TopK == 3

\* The loop over all_results with the set unique_links: items are references,
\* store maps a reference to its dict.
RECURSIVE dedupe_from(_, _, _, _)
dedupe_from(items, store, i, unique_links) ==
    IF i > Len(items) THEN <<>>
    ELSE IF store[items[i]].link \notin unique_links
         THEN <<items[i]>> \o dedupe_from(items, store, i + 1, unique_links \cup {store[items[i]].link})
         ELSE dedupe_from(items, store, i + 1, unique_links)

dedupe_last_wins(items, store) ==
    LET firsts == dedupe_from(items, store, 1, {})
    IN [k \in 1..Len(firsts) |->
          items[CHOOSE j \in 1..Len(items) :
                  /\ store[items[j]].link = store[firsts[k]].link
                  /\ \A m \in (j + 1)..Len(items) : store[items[m]].link # store[firsts[k]].link]]

dedupe(items, store) == dedupe_from(items, store, 1, {})

\* unique_results[:k]
take(s, k) == SubSeq(s, 1, Min(k, Len(s)))

dedupeAndSelect(items, store, topK) == take(dedupe(items, store), topK)

\* ------------------------------------------------------------------ get_relevant_answer
\* The context string: one block per source, in order, with the 'content' line only
\* when the key is present.
build_context(search_results, store) ==
    [i \in 1..Len(search_results) |->
        [title |-> store[search_results[i]].title,
         link |-> store[search_results[i]].link,
         description |-> store[search_results[i]].description,
         content |-> store[search_results[i]].content]]

get_relevant_answer_needs_sources(query, search_results, store, outcome) ==
    IF search_results = <<>> THEN Return(None) ELSE generate_response(outcome)

get_relevant_answer(query, search_results, store, outcome) == generate_response(outcome)

\* ------------------------------------------------------------------ web_search_task
NumResults == 2

Stages == <<"Decomposing", "Searching", "Selecting", "Scraping", "Synthesizing", "Done">>

TheQuery == <<"a", "sp", "b">>

\* Inputs of a pipeline run.
PipelineDecompositions ==
    LLMOutcomes({<<>>, <<"a">>, <<"a", "nl", "b">>, <<"dq">>, <<"sp", "nl">>})
PipelineSyntheses == LLMOutcomes({<<>>, <<"a">>})
PipelineFetches == {Timeout, Response(200, TRUE, ScrapeLimit + 1), Response(404, TRUE, 1)}

PageTitle(link) == <<"title", link>>

\* Hits of one search: distinct pages, each with a snippet for the query asked.
DistinctLinkSeqs(n) ==
    UNION {{h \in [1..k -> Links] : \A i, j \in 1..k : h[i] = h[j] => i = j} : k \in 0..n}

PipelineSearches(q) ==
    SearchOutcomes({[i \in 1..Len(h) |-> [title |-> PageTitle(h[i]), href |-> h[i], body |-> q]]
                      : h \in DistinctLinkSeqs(MaxHits)})

Enter(stage) == /\ pc' = stage
                /\ stage_log' = Append(stage_log, stage)

InitPipeline ==
    /\ pc = "Decomposing"
    /\ user_query = TheQuery
    /\ sub_queries = <<>>
    /\ qi = 0
    /\ heap = <<>>
    /\ all_results = <<>>
    /\ unique_results = <<>>
    /\ final_results = <<>>
    /\ si = 0
    /\ answer = None
    /\ calls = <<>>
    /\ llm_log = <<>>
    /\ fetch_log = <<>>
    /\ stage_log = <<"Decomposing">>
    /\ snapshot = <<>>

\* line 98: sub_queries = await decompose_query(user_query)
Decompose ==
    /\ pc = "Decomposing"
    /\ \E outcome \in PipelineDecompositions :
         LET r == decompose_query(user_query, outcome)
         IN /\ calls' = Append(calls, [op |-> "complete", arg |-> <<"decompose">>, failed |-> outcome.kind = "error"])
            /\ llm_log' = Append(llm_log, [purpose |-> "decompose", sources |-> <<>>, outcome |-> outcome])
            /\ IF r.raised
               THEN Enter("Raised") /\ UNCHANGED sub_queries
               ELSE Enter("Searching") /\ sub_queries' = r.value
    /\ UNCHANGED <<user_query, qi, heap, all_results, unique_results, final_results, si,
                   answer, fetch_log, snapshot>>
    /\ UNCHANGED notPipe

\* lines 104-107: one iteration of the search loop
Search ==
    /\ pc = "Searching"
    /\ qi < Len(sub_queries)
    /\ LET q == sub_queries[qi + 1]
       IN \E outcome \in PipelineSearches(q) :
            LET r == perform_search(q, NumResults, outcome)
            IN /\ calls' = Append(calls, [op |-> "search", arg |-> q, failed |-> outcome.raises])
               /\ IF r.raised
                  THEN Enter("Raised") /\ UNCHANGED <<heap, all_results, qi>>
                  ELSE /\ heap' = heap \o r.value
                       /\ all_results' = all_results \o [i \in 1..Len(r.value) |-> Len(heap) + i]
                       /\ qi' = qi + 1
                       /\ UNCHANGED <<pc, stage_log>>
    /\ UNCHANGED <<user_query, sub_queries, unique_results, final_results, si, answer,
                   llm_log, fetch_log, snapshot>>
    /\ UNCHANGED notPipe

SearchDone_after_first ==
    /\ pc = "Searching"
    /\ qi >= 1
    /\ Enter("Selecting")
    /\ UNCHANGED <<user_query, sub_queries, qi, heap, all_results, unique_results,
                   final_results, si, answer, calls, llm_log, fetch_log, snapshot>>
    /\ UNCHANGED notPipe

\* line 104: the search loop is exhausted
SearchDone ==
    /\ pc = "Searching"
    /\ qi = Len(sub_queries)
    /\ Enter("Selecting")
    /\ UNCHANGED <<user_query, sub_queries, qi, heap, all_results, unique_results,
                   final_results, si, answer, calls, llm_log, fetch_log, snapshot>>
    /\ UNCHANGED notPipe

\* lines 110-115: deduplicate by link
Select ==
    /\ pc = "Selecting"
    /\ unique_results' = dedupe(all_results, heap)
    /\ snapshot' = [i \in 1..Len(take(unique_results', TopK)) |-> heap[unique_results'[i]]]
    /\ Enter("Scraping")
    /\ UNCHANGED <<user_query, sub_queries, qi, heap, all_results, final_results, si,
                   answer, calls, llm_log, fetch_log>>
    /\ UNCHANGED notPipe

attach_to_all(store, ref, text) ==
    [i \in 1..Len(store) |-> [store[i] EXCEPT !.content = Content(text)]]

\* res['content'] = content; final_results.append(res)
attach(store, ref, text) == [store EXCEPT ![ref].content = Content(text)]

\* lines 119-123: one iteration of the scrape loop over unique_results[:3]
Scrape ==
    /\ pc = "Scraping"
    /\ si < Len(take(unique_results, TopK))
    /\ LET res == take(unique_results, TopK)[si + 1]
           url == heap[res].link
       IN \E fetch \in PipelineFetches :
            LET r == scrape_content(url, fetch)
            IN /\ calls' = Append(calls, [op |-> "scrape", arg |-> <<url>>, failed |-> try_block_raises(fetch)])
               /\ fetch_log' = Append(fetch_log, [url |-> url, fetch |-> fetch])
               /\ IF r.raised
                  THEN Enter("Raised") /\ UNCHANGED <<heap, final_results, si>>
                  ELSE /\ heap' = attach(heap, res, r.value)
                       /\ final_results' = Append(final_results, res)
                       /\ si' = si + 1
                       /\ UNCHANGED <<pc, stage_log>>
    /\ UNCHANGED <<user_query, sub_queries, qi, all_results, unique_results, answer,
                   llm_log, snapshot>>
    /\ UNCHANGED notPipe

\* line 119: the scrape loop is exhausted
ScrapeDone ==
    /\ pc = "Scraping"
    /\ si = Len(take(unique_results, TopK))
    /\ Enter("Synthesizing")
    /\ UNCHANGED <<user_query, sub_queries, qi, heap, all_results, unique_results,
                   final_results, si, answer, calls, llm_log, fetch_log, snapshot>>
    /\ UNCHANGED notPipe

\* lines 126-127: answer = await get_relevant_answer(...); return answer
Synthesize ==
    /\ pc = "Synthesizing"
    /\ \E outcome \in PipelineSyntheses :
         LET r == get_relevant_answer(user_query, final_results, heap, outcome)
         IN /\ calls' = Append(calls, [op |-> "complete", arg |-> <<"synthesize">>, failed |-> outcome.kind = "error"])
            /\ llm_log' = Append(llm_log, [purpose |-> "synthesize",
                                           sources |-> build_context(final_results, heap),
                                           outcome |-> outcome])
            /\ IF r.raised
               THEN Enter("Raised") /\ UNCHANGED answer
               ELSE Enter("Done") /\ answer' = r.value
    /\ UNCHANGED <<user_query, sub_queries, qi, heap, all_results, unique_results,
                   final_results, si, fetch_log, snapshot>>
    /\ UNCHANGED notPipe

Next ==
    \/ Decompose
    \/ Search
    \/ SearchDone
    \/ Select
    \/ Scrape
    \/ ScrapeDone
    \/ Synthesize

\* ------------------------------------------------------------------ decompose_query alone
DecomposeQueries == {<<"a">>, TheQuery}

InitDecompose ==
    /\ dq_query \in DecomposeQueries
    /\ dq_outcome \in LLMOutcomes(TextsUpTo(MaxRespLen))
    /\ dq_result = Return(<<>>)
    /\ dq_pc = "call"

DecomposeCall ==
    /\ dq_pc = "call"
    /\ dq_result' = decompose_query(dq_query, dq_outcome)
    /\ dq_pc' = "returned"
    /\ UNCHANGED <<dq_query, dq_outcome>>
    /\ UNCHANGED notDq

\* ------------------------------------------------------------------ perform_search alone
RawHits == [title : {"t1"}, href : Links, body : {"d"}]
HitSeqs(n) == UNION {[1..k -> RawHits] : k \in 0..n}

InitSearch ==
    /\ ps_query = <<"a">>
    /\ ps_limit \in 1..MaxLimit
    /\ ps_outcome \in SearchOutcomes(HitSeqs(MaxHits))
    /\ ps_result = Return(<<>>)
    /\ ps_pc = "call"

SearchCall ==
    /\ ps_pc = "call"
    /\ ps_result' = perform_search(ps_query, ps_limit, ps_outcome)
    /\ ps_pc' = "returned"
    /\ UNCHANGED <<ps_query, ps_limit, ps_outcome>>
    /\ UNCHANGED notPs

\* ------------------------------------------------------------------ scrape_content alone
Statuses == {200, 204, 300, 404, 500}
PageLens == {0, 1} \cup ((ScrapeLimit - 1)..MaxPageLen)
AllFetches ==
    {Timeout, DnsFailure} \cup {Response(st, p, n) : st \in Statuses, p \in BOOLEAN, n \in PageLens}

InitScrape ==
    /\ sc_url \in {"a", "b"}
    /\ sc_fetch \in AllFetches
    /\ sc_result = Return(EmptyText)
    /\ sc_pc = "call"

ScrapeCall ==
    /\ sc_pc = "call"
    /\ sc_result' = scrape_content(sc_url, sc_fetch)
    /\ sc_pc' = "returned"
    /\ UNCHANGED <<sc_url, sc_fetch>>
    /\ UNCHANGED notSc

\* ------------------------------------------------------------------ dedup + top-k alone
Candidates == [title : {"t1", "t2"}, link : Links, description : {"d"}, content : {NoContent}]
CandidateSeqs(n) == UNION {[1..k -> Candidates] : k \in 0..n}

Iota(n) == [i \in 1..n |-> i]

InitSelect ==
    /\ sel_candidates \in CandidateSeqs(MaxCandidates)
    /\ sel_topK \in 0..(TopK + 1)
    /\ sel_out = <<>>
    /\ sel_pc = "call"

SelectCall ==
    /\ sel_pc = "call"
    /\ LET refs == dedupeAndSelect(Iota(Len(sel_candidates)), sel_candidates, sel_topK)
       IN sel_out' = [i \in 1..Len(refs) |-> sel_candidates[refs[i]]]
    /\ sel_pc' = "returned"
    /\ UNCHANGED <<sel_candidates, sel_topK>>
    /\ UNCHANGED notSel

\* ------------------------------------------------------------------ /chat: generate_and_save
\* delta.content of a raw provider chunk: None, '' or a text
RawContents == {None, Some(<<>>), Some(<<"a">>), Some(<<"b">>)}

\* stream_openai: if chunk.choices[0].delta.content: yield it
stream_yields(raw) == ~raw.absent /\ raw.text # <<>>

\* the finally block: if full_response: asyncio.create_task(save_chat_message(...))
finally_block_unconditional(tasks, response) ==
    Append(tasks, [response |-> response, state |-> "scheduled"])

finally_block(tasks, response) ==
    IF response # <<>>
    THEN Append(tasks, [response |-> response, state |-> "scheduled"])
    ELSE tasks

InitChat ==
    /\ g_pc = "awaiting"
    /\ full_response = <<>>
    /\ received = <<>>
    /\ relayed = <<>>
    /\ raw_log = <<>>
    /\ ended = "no"
    /\ saves = <<>>
    /\ chat_history = <<>>

\* lines 99-101: the provider hands over a chunk
ProviderChunk ==
    /\ g_pc = "awaiting"
    /\ Len(raw_log) < MaxRawChunks
    /\ \E raw \in RawContents :
         /\ raw_log' = Append(raw_log, raw)
         /\ IF stream_yields(raw)
            THEN /\ full_response' = full_response \o raw.text
                 /\ received' = Append(received, raw.text)
                 /\ g_pc' = "yielding"
            ELSE UNCHANGED <<full_response, received, g_pc>>
    /\ UNCHANGED <<relayed, ended, saves, chat_history>>
    /\ UNCHANGED notChat

\* line 101: the yielded chunk is sent and the next one is asked for
ClientTakes ==
    /\ g_pc = "yielding"
    /\ relayed' = Append(relayed, received[Len(received)])
    /\ g_pc' = "awaiting"
    /\ UNCHANGED <<full_response, received, raw_log, ended, saves, chat_history>>
    /\ UNCHANGED notChat

\* line 99: the provider stream ends; lines 104-108 run
StreamExhausted ==
    /\ g_pc = "awaiting"
    /\ saves' = finally_block(saves, full_response)
    /\ ended' = "exhausted"
    /\ g_pc' = "closed"
    /\ UNCHANGED <<full_response, received, relayed, raw_log, chat_history>>
    /\ UNCHANGED notChat

\* lines 102-103: the provider raises mid-stream; lines 104-108 run
StreamError ==
    /\ g_pc = "awaiting"
    /\ saves' = finally_block(saves, full_response)
    /\ ended' = "error"
    /\ g_pc' = "closed"
    /\ UNCHANGED <<full_response, received, relayed, raw_log, chat_history>>
    /\ UNCHANGED notChat

\* the request is cancelled while the generator is suspended (at the yield or in the
\* async for): the exception is no Exception, so only lines 104-108 run
Cancelled ==
    /\ g_pc \in {"awaiting", "yielding"}
    /\ saves' = finally_block(saves, full_response)
    /\ ended' = IF g_pc = "yielding" THEN "cancelled at yield" ELSE "cancelled"
    /\ g_pc' = "closed"
    /\ UNCHANGED <<full_response, received, relayed, raw_log, chat_history>>
    /\ UNCHANGED notChat

\* chat.py 51-73: the scheduled task runs; db tells which statement fails, if any
save_chat_message(history, response, db) ==
    IF db = "insert_fails" THEN [history |-> history, ok |-> FALSE]
    ELSE IF db = "update_fails" THEN [history |-> Append(history, response), ok |-> FALSE]
    ELSE [history |-> Append(history, response), ok |-> TRUE]

RunSave ==
    /\ \E i \in 1..Len(saves), db \in {"ok", "insert_fails", "update_fails"} :
         /\ saves[i].state = "scheduled"
         /\ LET r == save_chat_message(chat_history, saves[i].response, db)
            IN /\ chat_history' = r.history
               /\ saves' = [saves EXCEPT ![i].state = IF r.ok THEN "saved" ELSE "failed"]
    /\ UNCHANGED <<g_pc, full_response, received, relayed, raw_log, ended>>
    /\ UNCHANGED notChat

NextChat ==
    \/ ProviderChunk
    \/ ClientTakes
    \/ StreamExhausted
    \/ StreamError
    \/ Cancelled
    \/ RunSave

\* ------------------------------------------------------------------ specifications
IdlePipeline ==
    /\ pc = "Idle"
    /\ user_query = <<>>
    /\ sub_queries = <<>>
    /\ qi = 0
    /\ heap = <<>>
    /\ all_results = <<>>
    /\ unique_results = <<>>
    /\ final_results = <<>>
    /\ si = 0
    /\ answer = None
    /\ calls = <<>>
    /\ llm_log = <<>>
    /\ fetch_log = <<>>
    /\ stage_log = <<>>
    /\ snapshot = <<>>

IdleDecompose ==
    /\ dq_query = <<>>
    /\ dq_outcome = [kind |-> "error", content |-> None]
    /\ dq_result = Return(<<>>)
    /\ dq_pc = "idle"

IdleSearch ==
    /\ ps_query = <<>>
    /\ ps_limit = 0
    /\ ps_outcome = [raises |-> TRUE, hits |-> <<>>]
    /\ ps_result = Return(<<>>)
    /\ ps_pc = "idle"

IdleScrape ==
    /\ sc_url = ""
    /\ sc_fetch = Timeout
    /\ sc_result = Return(EmptyText)
    /\ sc_pc = "idle"

IdleSelect ==
    /\ sel_candidates = <<>>
    /\ sel_topK = 0
    /\ sel_out = <<>>
    /\ sel_pc = "idle"

IdleChat ==
    /\ g_pc = "idle"
    /\ full_response = <<>>
    /\ received = <<>>
    /\ relayed = <<>>
    /\ raw_log = <<>>
    /\ ended = "no"
    /\ saves = <<>>
    /\ chat_history = <<>>

\* One run of web_search_task.
Init == InitPipeline /\ IdleDecompose /\ IdleSearch /\ IdleScrape /\ IdleSelect /\ IdleChat
Spec == Init /\ [][Next]_vars

\* The run is sequential code: each step is taken once it is enabled (every external
\* call returns or fails within its timeout).
FairSpec == Spec /\ WF_vars(Next)

\* decompose_query over all responses.
InitDQ == IdlePipeline /\ InitDecompose /\ IdleSearch /\ IdleScrape /\ IdleSelect /\ IdleChat
NextDQ == DecomposeCall
SpecDecompose == InitDQ /\ [][NextDQ]_vars

\* perform_search over all provider outcomes.
InitPS == IdlePipeline /\ IdleDecompose /\ InitSearch /\ IdleScrape /\ IdleSelect /\ IdleChat
NextPS == SearchCall
SpecSearch == InitPS /\ [][NextPS]_vars

\* scrape_content over all fetch outcomes.
InitSC == IdlePipeline /\ IdleDecompose /\ IdleSearch /\ InitScrape /\ IdleSelect /\ IdleChat
NextSC == ScrapeCall
SpecScrape == InitSC /\ [][NextSC]_vars

\* dedup + top-k over all candidate lists.
InitSel == IdlePipeline /\ IdleDecompose /\ IdleSearch /\ IdleScrape /\ InitSelect /\ IdleChat
NextSel == SelectCall
SpecSelect == InitSel /\ [][NextSel]_vars

\* The /chat relay.
InitRelay == IdlePipeline /\ IdleDecompose /\ IdleSearch /\ IdleScrape /\ IdleSelect /\ InitChat
SpecChat == InitRelay /\ [][NextChat]_vars

\* ------------------------------------------------------------------ helpers of the properties
IsPrefix(s, t) == Len(s) <= Len(t) /\ SubSeq(t, 1, Len(s)) = s

RECURSIVE Concat(_)
Concat(chunks) == IF chunks = <<>> THEN <<>> ELSE Head(chunks) \o Concat(Tail(chunks))

SelectedRefs == take(unique_results, TopK)

IsSynthesis(e) == e.purpose = "synthesize"
SynthEntries == SelectSeq(llm_log, IsSynthesis)

IsScrapeCall(c) == c.op = "scrape"

\* ------------------------------------------------------------------ C1
\* C1: under FairSpec every run of web_search_task, whatever fails in the
\* decomposition completion, the searches, the fetches and the synthesis completion,
\* eventually reaches Done, having returned a value (an answer or None) to its caller;
\* it never ends by raising and never stops in an intermediate stage.
C1_AlwaysReachesDone == <>(pc = "Done" /\ stage_log = Stages)

\* A run all of whose external calls failed (completion, search, completion) and that
\* returned None all the same.
C1_Witness ==
    /\ pc = "Done"
    /\ Len(sub_queries) = 1
    /\ \A i \in 1..Len(calls) : calls[i].failed
    /\ answer = None

\* ------------------------------------------------------------------ C2
\* The lines of a text after trimming whitespace and enclosing quotes, empty ones discarded.
NonEmptySeq(q) == q # <<>>
TrimmedLines(text) ==
    LET lines == Split(text)
    IN SelectSeq([i \in 1..Len(lines) |-> Strip(Strip(lines[i], Whitespace), Quote)], NonEmptySeq)

\* The completion failed, gave no text, or gave a text of which no line is left once
\* trimmed.
NoUsableText(outcome) ==
    \/ outcome.kind = "error"
    \/ outcome.content.absent
    \/ TrimmedLines(outcome.content.text) = <<>>

\* C2: decompose_query always returns a non-empty sequence, and returns exactly
\* <<query>> when the completion fails, yields no text, or yields a text from which no
\* line survives the parse.
C2_FallbackNonEmpty ==
    dq_pc = "returned" =>
        /\ ~dq_result.raised
        /\ Len(dq_result.value) >= 1
        /\ NoUsableText(dq_outcome) => dq_result.value = <<dq_query>>

\* ------------------------------------------------------------------ C3
\* Positions of the first candidate carrying each link.
FirstOccurrences(c) == {i \in 1..Len(c) : \A j \in 1..(i - 1) : c[j].link # c[i].link}

LinksOf(c) == [i \in 1..Len(c) |-> c[i].link]

\* C3: the selected list has no two entries with equal link and is exactly the first
\* min(topK, number of distinct links) first occurrences of the candidate list, in
\* the candidates' order.
C3_DedupeSelectsFirstOccurrences ==
    sel_pc = "returned" =>
        LET c == sel_candidates
            K == FirstOccurrences(c)
            n == Min(sel_topK, Cardinality(K))
        IN /\ Len(sel_out) = n
           /\ \A i, j \in 1..Len(sel_out) : sel_out[i].link = sel_out[j].link => i = j
           /\ \A k \in 1..n :
                \E i \in K : /\ Cardinality({j \in K : j < i}) = k - 1
                             /\ sel_out[k] = c[i]

\* links [a, b, a, c] with topK = 2 give [a, b], the first a being the one kept
C3_Witness ==
    /\ sel_pc = "returned"
    /\ LinksOf(sel_candidates) = <<"a", "b", "a", "c">>
    /\ sel_candidates[1].title # sel_candidates[3].title
    /\ sel_topK = 2
    /\ sel_out = <<sel_candidates[1], sel_candidates[2]>>

\* ------------------------------------------------------------------ C4
\* The fetch outcomes the claim counts as failures.
FetchFailed(fetch) ==
    \/ fetch.kind # "response"
    \/ fetch.status \notin 200..299
    \/ ~fetch.parses

\* C4: scrape_content never raises, returns a string of at most 2000 characters, and
\* returns the empty string on every failure: timeout, DNS failure, non-2xx status,
\* parse error.
C4_ScrapeEmptyOnAnyFailure ==
    sc_pc = "returned" =>
        /\ ~sc_result.raised
        /\ sc_result.value.len <= ScrapeLimit
        /\ FetchFailed(sc_fetch) => sc_result.value = EmptyText

\* ------------------------------------------------------------------ C5
\* C5: when the synthesis completion succeeds with content T the run returns T,
\* whatever failed before; when it fails the run returns None; the answer is None only
\* if the synthesis completion gave no text; synthesis is requested exactly once.
C5_AnswerIsSynthesisOutcome ==
    pc = "Done" =>
        /\ Len(SynthEntries) = 1
        /\ LET o == SynthEntries[1].outcome
           IN /\ o.kind = "ok" => answer = o.content
              /\ o.kind = "error" => answer = None
              /\ answer.absent => (o.kind = "error" \/ o.content.absent)

\* A search and a fetch failed, synthesis answered, and its text is returned.
C5_Witness ==
    /\ pc = "Done"
    /\ Len(sub_queries) = 2
    /\ \E i \in 1..Len(calls) : calls[i].op = "search" /\ calls[i].failed
    /\ \E i \in 1..Len(calls) : calls[i].op = "scrape" /\ calls[i].failed
    /\ ~SynthEntries[1].outcome.content.absent
    /\ answer = Some(<<"a">>)

\* ------------------------------------------------------------------ C6
\* C6: perform_search never raises, returns at most `limit` results, in the
\* provider's order, whatever the provider hands back, and returns the empty
\* sequence when the provider call fails.
C6_SearchAtMostLimit ==
    ps_pc = "returned" =>
        /\ ~ps_result.raised
        /\ Len(ps_result.value) <= ps_limit
        /\ Len(ps_result.value) <= Len(ps_outcome.hits)
        /\ \A i \in 1..Len(ps_result.value) : ps_result.value[i].link = ps_outcome.hits[i].href
        /\ ps_outcome.raises => ps_result.value = <<>>

\* ------------------------------------------------------------------ C7
CallOf(c) == <<c.op, c.arg>>

\* The calls a run has issued when it stands where it stands.
ExpectedCalls ==
    (IF pc = "Decomposing" THEN <<>> ELSE << <<"complete", <<"decompose">>>> >>)
      \o [i \in 1..qi |-> <<"search", sub_queries[i]>>]
      \o [j \in 1..si |-> <<"scrape", <<heap[SelectedRefs[j]].link>>>>]
      \o (IF pc = "Done" THEN << <<"complete", <<"synthesize">>>> >> ELSE <<>>)

\* C7: the stages are entered in the fixed order Decomposing, Searching, Selecting,
\* Scraping, Synthesizing, Done; the external calls are one decomposition completion,
\* one search per sub-query in order, then, all searches done, one scrape per selected
\* result in order, then, all scrapes done, one synthesis completion; with no result
\* at all there is no scrape and synthesis is still requested once, with no source.
C7_StageOrderAndCallTrace ==
    /\ IsPrefix(stage_log, Stages)
    /\ pc = stage_log[Len(stage_log)]
    /\ [i \in 1..Len(calls) |-> CallOf(calls[i])] = ExpectedCalls
    /\ pc = "Decomposing" => qi = 0
    /\ pc \in {"Decomposing", "Searching", "Selecting"} => si = 0
    /\ pc \in {"Selecting", "Scraping", "Synthesizing", "Done"} => qi = Len(sub_queries)
    /\ pc \in {"Synthesizing", "Done"} => si = Len(SelectedRefs)
    /\ pc = "Done" =>
         /\ Len(SynthEntries) = 1
         /\ Len(SynthEntries[1].sources) = Len(SelectedRefs)
         /\ all_results = <<>> =>
              /\ SelectSeq(calls, IsScrapeCall) = <<>>
              /\ SynthEntries[1].sources = <<>>

\* Two sub-queries, both searches empty: four calls, no scrape, synthesis with no source.
C7_Witness ==
    /\ pc = "Done"
    /\ Len(sub_queries) = 2
    /\ all_results = <<>>
    /\ Len(calls) = 4
    /\ calls[4].op = "complete"
    /\ SynthEntries[1].sources = <<>>

\* ------------------------------------------------------------------ C8
\* C8: every scraped result carries as content the scrape output for its own link
\* ('' when its fetch failed), keeps its title, link and description, and stays at
\* its place; once Scraping is over all selected results are handed to Synthesizing.
C8_ContentAttachedInPlace ==
    pc \in {"Scraping", "Synthesizing", "Done"} =>
        /\ final_results = SubSeq(SelectedRefs, 1, si)
        /\ Len(fetch_log) = si
        /\ Len(snapshot) = Len(SelectedRefs)
        /\ \A i \in 1..si :
             LET d == heap[final_results[i]]
                 f == fetch_log[i].fetch
             IN /\ d.title = snapshot[i].title
                /\ d.link = snapshot[i].link
                /\ d.description = snapshot[i].description
                /\ fetch_log[i].url = d.link
                /\ d.content = Content(scrape_content(d.link, f).value)
                /\ try_block_raises(f) => d.content = Content(EmptyText)
                /\ (~try_block_raises(f) /\ f.len > 0) => d.content.src = d.link
        /\ pc \in {"Synthesizing", "Done"} => Len(final_results) = Len(snapshot)

\* Three selected results, the second fetch timed out: the second has content '',
\* the first and the third keep their own text, and the run is in Synthesizing.
C8_Witness ==
    /\ pc = "Synthesizing"
    /\ Len(final_results) = 3
    /\ fetch_log[2].fetch = Timeout
    /\ heap[final_results[2]].content = Content(EmptyText)
    /\ heap[final_results[1]].content = Content(Text(heap[final_results[1]].link, ScrapeLimit))
    /\ heap[final_results[3]].content = Content(Text(heap[final_results[3]].link, ScrapeLimit))

\* ------------------------------------------------------------------ C9
\* C9: for every response text no returned sub-query is the empty string, and the
\* returned sub-queries are the trimmed non-empty lines in their order (the query
\* itself when there is none), lines made of quotes and whitespace included.
C9_NoEmptySubQuery ==
    (dq_pc = "returned" /\ dq_outcome.kind = "ok" /\ ~dq_outcome.content.absent) =>
        /\ \A i \in 1..Len(dq_result.value) : dq_result.value[i] # <<>>
        /\ dq_result.value =
             (IF TrimmedLines(dq_outcome.content.text) # <<>>
              THEN TrimmedLines(dq_outcome.content.text)
              ELSE <<dq_query>>)

\* ------------------------------------------------------------------ C10
HasText(raw) == stream_yields(raw)
YieldedChunks == LET kept == SelectSeq(raw_log, HasText) IN [i \in 1..Len(kept) |-> kept[i].text]

\* C10: however the stream ends, a save is scheduled at most once, only once the
\* relay has stopped, and exactly when some non-empty chunk came from the provider;
\* the saved response is the concatenation of all chunks received, in order, and the
\* chunks relayed to the client are a prefix of them.
C10_SaveOnceAfterRelay ==
    /\ Len(saves) <= 1
    /\ saves # <<>> => g_pc = "closed"
    /\ g_pc = "closed" => (Len(saves) = 1 <=> \E i \in 1..Len(raw_log) : HasText(raw_log[i]))
    /\ received = YieldedChunks
    /\ full_response = Concat(received)
    /\ saves # <<>> => saves[1].response = Concat(received)
    /\ IsPrefix(relayed, received)

\* Cancelled while the second chunk was being yielded: both chunks are saved, one was relayed.
C10_Witness ==
    /\ ended = "cancelled at yield"
    /\ received = << <<"a">>, <<"b">> >>
    /\ relayed = << <<"a">> >>
    /\ Len(saves) = 1
    /\ saves[1].response = <<"a", "b">>

====
